---- MODULE Spec2Model ----
(***************************************************************************)
(* EquityAnalysisFilter: the screening pipeline                            *)
(*   get_initial_survivors  (src/src/filters.py)            Bulk Screener  *)
(*   get_advanced_metrics   (src/src/financial_analysis.py) Deep Analyzer  *)
(*   calculate_altman_z_yfinance, load_cache, save_cache,                  *)
(*   apply_trend_alignment  (src/src/setup.py)                             *)
(*                                                                         *)
(* Numbers.  Python floats are modelled as exact rationals [n, d], d > 0.  *)
(* Money is counted in units of one million dollars, so that               *)
(* "Mkt Cap (B)" * 1_000_000_000 dollars is MktCapB * 1000 units.  The     *)
(* inputs are chosen so that no value lies on a decimal rounding tie that  *)
(* binary floating point would resolve differently from the exact value.   *)
(* A DataFrame of statements is a function from line-item names to the     *)
(* sequence of its per-period cells, most recent period first; a cell is   *)
(* [ok |-> TRUE, v |-> integer] or NaN.                                    *)
(***************************************************************************)
EXTENDS Integers, Sequences, FiniteSets, TLC

VARIABLES
    \* ---- Deep Analyzer (get_advanced_metrics) and its environment
    cacheFile,      \* content of CACHE_FILE on disk
    clock,          \* wall clock, seconds (time.time())
    provider,       \* yfinance: ticker -> what stock.financials / balance_sheet give
    survivor_df,    \* the Candidate Set handed over by the Bulk Screener
    params,         \* CACHE_EXPIRY_DAYS, FORTRESS_MARGIN_THRESHOLD, MIN_INTEREST_COVERAGE, MIN_ROIC
    pc,             \* "idle" | "loop" | "done" | "raised"
    cache,          \* the in-memory cache of the running call
    current_time,   \* local current_time
    idx,            \* loop position in tickers (1-based)
    final_data,     \* local final_data
    avg_margin,     \* local avg_margin: [set, val]; survives from one iteration to the next
    result,         \* the DataFrame returned by the last completed call
    hist,           \* bookkeeping of what happened (fetches, skips, loads, saves, previous run)
    \* ---- calculate_altman_z_yfinance called on its own
    zin,            \* the arguments: [given, bs, fin, market_cap]
    zout,           \* [done, val]: the value returned
    \* ---- Bulk Screener (get_initial_survivors) and its environment
    sc_in,          \* the arguments: [tickers, cfg]
    sc_provider,    \* yahooquery: [raises: chunk -> BOOLEAN, data: symbol -> record or string]
    sc_pc,          \* "idle" | "batch" | "symbols" | "done"
    sc_chunk,       \* index of the chunk being processed
    sc_pos,         \* position in df_modules.items()
    survivors,      \* local survivors
    sc_result,      \* the DataFrame returned
    \* ---- Trend Filter (apply_trend_alignment) and its environment
    df_input,       \* the argument
    tr_data,        \* yf.download: [kind, len, cols: ticker -> column of the price table]
    tr_pc,          \* "idle" | "loop" | "done"
    tr_pos,         \* loop position in tickers
    trend_data,     \* local trend_data
    tr_result       \* the DataFrame returned

deepVars == <<cacheFile, clock, provider, survivor_df, params, pc, cache, current_time,
              idx, final_data, avg_margin, result, hist>>

zVars == <<zin, zout>>

screenVars == <<sc_in, sc_provider, sc_pc, sc_chunk, sc_pos, survivors, sc_result>>

trendVars == <<df_input, tr_data, tr_pc, tr_pos, trend_data, tr_result>>

vars == <<deepVars, zVars, screenVars, trendVars>>

\* a specification of one stage leaves the variables of the others untouched
DeepOff ==
    /\ cacheFile = <<>> /\ clock = 0 /\ provider = <<>> /\ survivor_df = <<>>
    /\ params = <<>> /\ pc = "off" /\ cache = <<>> /\ current_time = 0 /\ idx = 0
    /\ final_data = <<>> /\ avg_margin = <<>> /\ result = <<>> /\ hist = <<>>

ZOff == zin = <<>> /\ zout = <<>>

ScreenOff ==
    /\ sc_in = <<>> /\ sc_provider = <<>> /\ sc_pc = "off" /\ sc_chunk = 0
    /\ sc_pos = 0 /\ survivors = <<>> /\ sc_result = <<>>

TrendOff ==
    /\ df_input = <<>> /\ tr_data = <<>> /\ tr_pc = "off" /\ tr_pos = 0
    /\ trend_data = <<>> /\ tr_result = <<>>

-----------------------------------------------------------------------------
(* Exact arithmetic standing for Python float arithmetic                   *)

Abs(x) == IF x < 0 THEN -x ELSE x

RECURSIVE Gcd(_, _)
Gcd(a, b) == IF b = 0 THEN a ELSE Gcd(b, a % b)

\* the rational n/d (d # 0) in lowest terms with a positive denominator
Rat(n, d) ==
    LET g == Gcd(Abs(n), Abs(d))
    IN  IF d > 0 THEN [n |-> n \div g, d |-> d \div g]
        ELSE [n |-> (-n) \div g, d |-> (-d) \div g]

RatLt(a, b) == a.n * b.d < b.n * a.d

RatGt(a, b) == RatLt(b, a)

RatGe(a, b) == ~RatLt(a, b)

RatEq(a, b) == a.n * b.d = b.n * a.d

RatAdd(a, b) == Rat(a.n * b.d + b.n * a.d, a.d * b.d)

RatScale(k, a) == Rat(k * a.n, a.d)

RatDivInt(a, k) == Rat(a.n, a.d * k)

(* round(x, 2): the nearest hundredth, ties to the even hundredth; the     *)
(* result is a rational with denominator 100.                              *)
Round2(a) ==
    LET i  == a.n \div a.d
        r  == a.n % a.d
        h1 == (10 * r) \div a.d
        r1 == (10 * r) % a.d
        h2 == (10 * r1) \div a.d
        r2 == (10 * r1) % a.d
        k0 == 100 * i + 10 * h1 + h2
        k  == IF 2 * r2 > a.d THEN k0 + 1
              ELSE IF 2 * r2 < a.d THEN k0
              ELSE IF k0 % 2 = 0 THEN k0 ELSE k0 + 1
    IN  [n |-> k, d |-> 100]

-----------------------------------------------------------------------------
(* Statement tables                                                        *)

Num(x) == [ok |-> TRUE, v |-> x]

NaN == [ok |-> FALSE, v |-> 0]

NoTable == [k \in {} |-> <<>>]

\* df.empty: no line items, or no periods
IsEmpty(df) == DOMAIN df = {} \/ \A k \in DOMAIN df : Len(df[k]) = 0

RECURSIVE get_val(_, _)
\* the first candidate name present in the table, most recent period; else 0.
\* The most recent cell of every item looked up is a number in all inputs.
get_val(df, keys) ==
    IF keys = <<>> THEN 0
    ELSE IF Head(keys) \in DOMAIN df THEN df[Head(keys)][1].v
    ELSE get_val(df, Tail(keys))

RECURSIVE LookupThrows(_, _)
\* df.loc[k].iloc[0] raises IndexError when the item is there and the table
\* has no period
LookupThrows(df, keys) ==
    IF keys = <<>> THEN FALSE
    ELSE IF Head(keys) \in DOMAIN df THEN Len(df[Head(keys)]) = 0
    ELSE LookupThrows(df, Tail(keys))

get_item(df, keys) == get_val(df, keys)

SafeZoneZ == 299

GreyZoneZ == 181

NoDebtCoverage == 100

FailedRoic == -999

SecondsPerDay == 86400

(* calculate_altman_z_yfinance: the Z-Score as an exact rational; 0 when   *)
(* total assets or total liabilities are 0, or when a lookup throws.       *)
ZFormula_CapOverAssets(total_assets, total_liab, current_assets, current_liab, retained_earnings, ebit, total_revenue, market_cap) ==
    Rat(12 * (current_assets - current_liab) + 14 * retained_earnings
          + 33 * ebit + 10 * total_revenue + 6 * market_cap,
        10 * total_assets)

ZFormula(total_assets, total_liab, current_assets, current_liab, retained_earnings, ebit, total_revenue, market_cap) ==
    \* 1.2*A + 1.4*B + 3.3*C + 0.6*D + 1.0*E over the common denominator
    Rat((12 * (current_assets - current_liab) + 14 * retained_earnings
            + 33 * ebit + 10 * total_revenue) * total_liab
          + 6 * market_cap * total_assets,
        10 * total_assets * total_liab)

ZBsKeys == << <<"Total Assets">>,
              <<"Total Liabilities Net Minority Interest", "Total Liabilities">>,
              <<"Current Assets", "Total Current Assets">>,
              <<"Current Liabilities", "Total Current Liabilities">>,
              <<"Retained Earnings">> >>

ZFinKeys == << <<"EBIT", "Operating Income">>, <<"Total Revenue">> >>

calculate_altman_z_yfinance(bs, fin, market_cap) ==
    IF \/ \E i \in DOMAIN ZBsKeys : LookupThrows(bs, ZBsKeys[i])
       \/ \E i \in DOMAIN ZFinKeys : LookupThrows(fin, ZFinKeys[i])
    THEN Rat(0, 1)
    ELSE
    LET total_assets      == get_val(bs, <<"Total Assets">>)
        total_liab        == get_val(bs, <<"Total Liabilities Net Minority Interest",
                                          "Total Liabilities">>)
        current_assets    == get_val(bs, <<"Current Assets", "Total Current Assets">>)
        current_liab      == get_val(bs, <<"Current Liabilities", "Total Current Liabilities">>)
        retained_earnings == get_val(bs, <<"Retained Earnings">>)
        ebit              == get_val(fin, <<"EBIT", "Operating Income">>)
        total_revenue     == get_val(fin, <<"Total Revenue">>)
    IN  IF total_assets = 0 \/ total_liab = 0 THEN Rat(0, 1)
        ELSE ZFormula(total_assets, total_liab, current_assets, current_liab,
                      retained_earnings, ebit, total_revenue, market_cap)

-----------------------------------------------------------------------------
(* Deep Analyzer: the per-ticker computations                              *)

\* determine_tier_history(metrics, is_fortress_margin, is_pos_margin)
determine_tier_history(metrics, is_fortress_margin, is_pos_margin, p) ==
    LET z_val == metrics["z_score"]
    IN  IF RatLt(metrics["int_cov"], p.MIN_INTEREST_COVERAGE) THEN "Risky"
        ELSE IF RatLt(metrics["roic"], p.MIN_ROIC) THEN "Risky"
        ELSE IF is_fortress_margin /\ RatGe(z_val, Rat(SafeZoneZ, 100)) THEN "Fortress"
        ELSE IF is_pos_margin /\ RatGe(z_val, Rat(GreyZoneZ, 100)) THEN "Strong"
        ELSE "Risky"

RECURSIVE RatSum(_)
RatSum(s) == IF s = <<>> THEN Rat(0, 1) ELSE RatAdd(Head(s), RatSum(Tail(s)))

RECURSIVE Ratios(_, _)
\* (op_income_history / revenue_history).dropna(): a period counts when both
\* cells are numbers and the quotient is one (0/0 is NaN and is dropped).
\* Revenue cells of the inputs are never 0 with a non-zero income (no inf).
Ratios(op, rev) ==
    IF op = <<>> \/ rev = <<>> THEN <<>>
    ELSE LET rest == Ratios(Tail(op), Tail(rev))
         IN  IF Head(op).ok /\ Head(rev).ok /\ Head(rev).v # 0
             THEN <<Rat(Head(op).v, Head(rev).v)>> \o rest
             ELSE rest

(* The 4-year average margin block (lines 102-129): [raised, some, avg].   *)
(* Without "Operating Income" and "EBIT" the income history is             *)
(* pd.Series([0]), whose index matches no period: every quotient is NaN.   *)
MarginBlock(fin) ==
    IF "Total Revenue" \notin DOMAIN fin
    THEN [raised |-> TRUE, some |-> FALSE, avg |-> Rat(0, 1)]
    ELSE LET yearly_margins ==
                 IF "Operating Income" \in DOMAIN fin
                 THEN Ratios(fin["Operating Income"], fin["Total Revenue"])
                 ELSE IF "EBIT" \in DOMAIN fin
                 THEN Ratios(fin["EBIT"], fin["Total Revenue"])
                 ELSE <<>>
         IN  IF Len(yearly_margins) > 0
             THEN [raised |-> FALSE, some |-> TRUE,
                   avg |-> RatDivInt(RatSum(yearly_margins), Len(yearly_margins))]
             ELSE [raised |-> FALSE, some |-> FALSE, avg |-> Rat(0, 1)]

\* int_cov (lines 151-155)
InterestCoverage(fin) ==
    LET ebit    == get_item(fin, <<"EBIT", "Operating Income", "Pretax Income">>)
        int_exp == Abs(get_item(fin, <<"Interest Expense", "Interest Expense Non Operating">>))
    IN  IF int_exp = 0 THEN Rat(NoDebtCoverage, 1) ELSE Rat(ebit, int_exp)

\* roic (lines 159-163)
Roic(fin, bs) ==
    LET ebit         == get_item(fin, <<"EBIT", "Operating Income", "Pretax Income">>)
        total_assets == get_item(bs, <<"Total Assets">>)
        curr_liab    == get_item(bs, <<"Current Liabilities", "Total Current Liabilities">>)
        invested_cap == total_assets - curr_liab
    IN  IF invested_cap <= 0 THEN Rat(0, 1) ELSE Rat(ebit, invested_cap)

\* the cache entry written for an analysed ticker (lines 173-178)
Metrics(z, roic, int_cov, now) ==
    [k \in {"timestamp", "z_score", "roic", "int_cov"} |->
        CASE k = "timestamp" -> now
          [] k = "z_score"   -> Round2(z)
          [] k = "roic"      -> roic
          [] k = "int_cov"   -> Round2(int_cov)]

(* One analysed ticker (lines 100-204): the new avg_margin local, the      *)
(* cache entry and the emitted row.                                        *)
Analyse(fin, bs, base_row, p, old_avg, now) ==
    LET m       == MarginBlock(fin)
        newAvg  == IF m.some THEN [set |-> TRUE, val |-> m.avg] ELSE old_avg
        is_fortress_margin == m.some /\ RatGt(m.avg, p.FORTRESS_MARGIN_THRESHOLD)
        is_positive_margin == m.some /\ RatGt(m.avg, Rat(0, 1))
        int_cov == InterestCoverage(fin)
        roic    == Roic(fin, bs)
        \* "Mkt Cap (B)" is a number of hundredths of $1B: times 1000 in $1M
        mkt_cap_raw == (base_row["Mkt Cap (B)"].n * 1000) \div base_row["Mkt Cap (B)"].d
        z       == calculate_altman_z_yfinance(bs, fin, mkt_cap_raw)
        metrics == Metrics(z, roic, int_cov, now)
        tier    == determine_tier_history(metrics, is_fortress_margin, is_positive_margin, p)
        row     == [k \in {"Ticker", "Tier", "Price", "P/E", "Sector", "Z-Score", "ROIC %",
                           "Op Margin %", "Avg Margin (4Y)", "Curr Ratio", "Int Cov",
                           "Mkt Cap (B)"} |->
                      CASE k = "Tier"            -> tier
                        [] k = "Z-Score"         -> Round2(z)
                        [] k = "ROIC %"          -> Round2(RatScale(100, roic))
                        [] k = "Avg Margin (4Y)" ->
                               IF newAvg.set THEN Round2(RatScale(100, newAvg.val))
                               ELSE [n |-> 0, d |-> 100]
                        [] k = "Int Cov"         -> Round2(int_cov)
                        [] OTHER                 -> base_row[k]]
    IN  [avg |-> newAvg, metrics |-> metrics, row |-> row,
         is_fortress_margin |-> is_fortress_margin,
         is_positive_margin |-> is_positive_margin,
         z |-> z, roic |-> roic, int_cov |-> int_cov]

-----------------------------------------------------------------------------
(* Inputs of the Deep Analyzer                                             *)

MaxRuns == 2

Tickers == {"AAA", "BBB"}

S2(a, b) == <<Num(a), Num(b)>>

\* pd.DataFrame(list of dicts): the columns are the keys of the rows, so a
\* frame built from an empty list has no column at all
DataFrame(rows) ==
    [columns |-> UNION {DOMAIN rows[i] : i \in DOMAIN rows}, rows |-> rows]

\* a row as the Bulk Screener emits it (filters.py 128-142)
SurvivorRow(t) ==
    [k \in {"Ticker", "Sector", "Price", "Op Margin %", "P/E", "Curr Ratio", "Mkt Cap (B)"} |->
        CASE k = "Ticker"      -> t
          [] k = "Sector"      -> <<"T", "e", "c", "h">>
          [] k = "Price"       -> Rat(25, 1)
          [] k = "Op Margin %" -> [n |-> 1500, d |-> 100]
          [] k = "P/E"         -> [n |-> 1250, d |-> 100]
          [] k = "Curr Ratio"  -> Rat(2, 1)
          [] k = "Mkt Cap (B)" -> IF t = "AAA" THEN [n |-> 120, d |-> 100]
                                  ELSE [n |-> 200, d |-> 100]]

SurvivorFrames ==
    {DataFrame(rows) : rows \in
        {<<>>, <<SurvivorRow("AAA")>>, <<SurvivorRow("BBB")>>,
         <<SurvivorRow("AAA"), SurvivorRow("BBB")>>,
         <<SurvivorRow("BBB"), SurvivorRow("AAA")>>}}

BsHealthy ==
    "Total Assets" :> S2(1000, 950)
    @@ "Total Liabilities Net Minority Interest" :> S2(600, 600)
    @@ "Current Assets" :> S2(400, 380) @@ "Current Liabilities" :> S2(200, 190)
    @@ "Retained Earnings" :> S2(110, 90)

BsNoAssets ==
    "Total Liabilities" :> S2(600, 600) @@ "Total Current Assets" :> S2(400, 380)
    @@ "Total Current Liabilities" :> S2(200, 190) @@ "Retained Earnings" :> S2(110, 90)

FinSolid ==
    "EBIT" :> S2(150, 140) @@ "Operating Income" :> S2(150, 140)
    @@ "Interest Expense" :> S2(-3, -3) @@ "Total Revenue" :> S2(900, 800)

\* EBIT / |interest| = 1.496, which rounds to 1.50; older revenue is NaN
FinThinCoverage ==
    "EBIT" :> S2(187, 180) @@ "Operating Income" :> S2(187, 180)
    @@ "Interest Expense Non Operating" :> S2(-125, -120)
    @@ "Total Revenue" :> <<Num(900), NaN>>

\* roic = 40 / 800 = 0.05
FinLowReturn ==
    "EBIT" :> S2(40, 40) @@ "Operating Income" :> S2(40, 36)
    @@ "Interest Expense" :> S2(-4, -4) @@ "Total Revenue" :> S2(900, 800)

\* a thin but positive margin (3 %)
FinThinMargin ==
    "EBIT" :> S2(150, 140) @@ "Operating Income" :> S2(27, 24)
    @@ "Interest Expense" :> S2(-3, -3) @@ "Total Revenue" :> S2(900, 800)

\* operating losses while EBIT is positive
FinLosses ==
    "EBIT" :> S2(150, 140) @@ "Operating Income" :> S2(-9, -8)
    @@ "Interest Expense" :> S2(-3, -3) @@ "Total Revenue" :> S2(900, 800)

\* no "Total Revenue" row: the margin block raises KeyError
FinNoRevenue ==
    "EBIT" :> S2(150, 140) @@ "Operating Income" :> S2(150, 140)
    @@ "Interest Expense" :> S2(-3, -3)

\* neither "Operating Income" nor "EBIT", no interest row
FinPretaxOnly ==
    "Pretax Income" :> S2(150, 140) @@ "Total Revenue" :> S2(900, 800)

\* EBIT / (total assets - current liabilities) = -999 exactly
FinDeepLoss ==
    "EBIT" :> S2(-999, -500) @@ "Operating Income" :> S2(-999, -500)
    @@ "Interest Expense" :> S2(-3, -3) @@ "Total Revenue" :> S2(900, 800)

BsThinCapital ==
    "Total Assets" :> S2(201, 300) @@ "Total Liabilities" :> S2(100, 100)
    @@ "Current Assets" :> S2(150, 150) @@ "Current Liabilities" :> S2(200, 190)
    @@ "Retained Earnings" :> S2(10, 10)

Fetched(fin, bs) == [kind |-> "ok", fin |-> fin, bs |-> bs]

\* what yf.Ticker(t).financials / .balance_sheet give for one ticker
Outcomes ==
    { [kind |-> "raise", fin |-> NoTable, bs |-> NoTable],
      Fetched(NoTable, BsHealthy),
      Fetched(FinSolid, BsHealthy), Fetched(FinThinCoverage, BsHealthy),
      Fetched(FinLowReturn, BsHealthy), Fetched(FinThinMargin, BsHealthy),
      Fetched(FinLosses, BsHealthy), Fetched(FinNoRevenue, BsHealthy),
      Fetched(FinPretaxOnly, BsHealthy), Fetched(FinSolid, BsNoAssets),
      Fetched(FinDeepLoss, BsThinCapital) }

ParamSets ==
    { [CACHE_EXPIRY_DAYS |-> 1, FORTRESS_MARGIN_THRESHOLD |-> Rat(5, 100),
       MIN_INTEREST_COVERAGE |-> Rat(15, 10), MIN_ROIC |-> Rat(10, 100)] }

StartClock == 3 * SecondsPerDay

\* seconds that pass before a call starts
Elapse == {0, 1}

\* a persisted entry: failed (roic == -999) or analysed, or one without timestamp
FailedEntry(ts) == "timestamp" :> ts @@ "roic" :> Rat(FailedRoic, 1)

GoodEntry(ts) ==
    "timestamp" :> ts @@ "z_score" :> [n |-> 379, d |-> 100] @@ "roic" :> Rat(3, 16)
    @@ "int_cov" :> [n |-> 5000, d |-> 100]

NoTimestampEntry == "roic" :> Rat(FailedRoic, 1)

EntryChoices ==
    { FailedEntry(StartClock - SecondsPerDay + 1), FailedEntry(StartClock - SecondsPerDay),
      GoodEntry(StartClock - 10), NoTimestampEntry }

\* the file: absent, unreadable as JSON, a JSON list, or a JSON object
File(kind, map) == [kind |-> kind, map |-> map]

CacheFiles ==
    { File("absent", <<>>), File("corrupt", <<>>), File("list", <<>>) }
    \cup { File("dict", m) : m \in
              UNION { [D -> EntryChoices] : D \in SUBSET Tickers } }

-----------------------------------------------------------------------------
(* Bulk Screener: get_initial_survivors                                    *)
(* A provider record is [kind |-> "dict", mods]; mods maps a module name   *)
(* to [kind |-> "dict", f] (f: field name -> cell) or to a string (kind    *)
(* "str", what yahooquery gives for a module it could not fetch); a cell   *)
(* is [null |-> TRUE] (JSON null) or a value.  A symbol's record may also  *)
(* be a string: the fetch error of that symbol.  Text is a sequence of     *)
(* characters; Python's None as a sector is the text PyNone.               *)

chunk_size == 500

PyNone == <<"None">>

Unknown == <<"U", "n", "k", "n", "o", "w", "n">>

Val(x) == [null |-> FALSE, v |-> x]

NullNum == [null |-> TRUE, v |-> Rat(0, 1)]

NullText == [null |-> TRUE, v |-> <<>>]

\* data.get(mod, {}).get(field, default): [raise, null, v]
GetField(data, mod, field, default) ==
    IF mod \notin DOMAIN data.mods
    THEN [raise |-> FALSE, null |-> FALSE, v |-> default]
    ELSE IF data.mods[mod].kind = "str"
    THEN [raise |-> TRUE, null |-> FALSE, v |-> default]      \* str has no .get
    ELSE IF field \notin DOMAIN data.mods[mod].f
    THEN [raise |-> FALSE, null |-> FALSE, v |-> default]
    ELSE [raise |-> FALSE, null |-> data.mods[mod].f[field].null,
          v |-> IF data.mods[mod].f[field].null THEN default
                ELSE data.mods[mod].f[field].v]

\* x in sector: x is a contiguous part of sector
Contains(sector, x) ==
    \E i \in 0 .. (Len(sector) - Len(x)) : SubSeq(sector, i + 1, i + Len(x)) = x

\* vol and sector may still be None when the filters run: vol < MIN_VOLUME
\* and x in sector then raise TypeError (lines 110, 115)
FilterRaises(vol_null, sector_null, cfg) ==
    vol_null \/ (sector_null /\ Len(cfg.EXCLUDED_SECTORS) > 0)

PassesFilters_MarginNotNegative(x, cfg) ==
    /\ ~(x.pe_known /\ RatGt(x.pe, cfg.MAX_PE_RATIO))
    /\ ~RatLt(x.price, cfg.MIN_PRICE)
    /\ ~RatLt(x.cap, cfg.MIN_CAP)
    /\ ~RatLt(x.vol, cfg.MIN_VOLUME)
    /\ ~\E i \in DOMAIN cfg.EXCLUDED_SECTORS : Contains(x.sector, cfg.EXCLUDED_SECTORS[i])
    /\ ~RatLt(x.curr_ratio, cfg.MIN_CURRENT_RATIO)
    /\ ~RatLt(x.op_margins, Rat(0, 1))

\* the filters of lines 98-124 on the extracted values x (none of them None)
PassesFilters(x, cfg) ==
    /\ ~(x.pe_known /\ RatGt(x.pe, cfg.MAX_PE_RATIO))
    /\ ~RatLt(x.price, cfg.MIN_PRICE)
    /\ ~RatLt(x.cap, cfg.MIN_CAP)
    /\ ~RatLt(x.vol, cfg.MIN_VOLUME)
    /\ ~\E i \in DOMAIN cfg.EXCLUDED_SECTORS : Contains(x.sector, cfg.EXCLUDED_SECTORS[i])
    /\ ~RatLt(x.curr_ratio, cfg.MIN_CURRENT_RATIO)
    /\ ~(RatLt(x.op_margins, Rat(0, 1)) \/ RatEq(x.op_margins, Rat(0, 1)))

(* The body of the loop over df_modules.items() for one symbol (lines      *)
(* 56-145): [keep, row].  Market cap is in $1M, so cap / 1_000_000_000     *)
(* dollars is cap / 1000.                                                  *)
ScreenOne(symbol, data, cfg) ==
    LET drop == [keep |-> FALSE, row |-> <<>>]
    IN
    IF data.kind = "str" THEN drop
    ELSE
    LET price0 == GetField(data, "price", "regularMarketPrice", Rat(0, 1))
        price  == price0.v                                   \* None -> 0
        vol0   == GetField(data, "summaryDetail", "averageVolume", Rat(0, 1))
        vol1   == IF vol0.null \/ RatEq(vol0.v, Rat(0, 1))
                  THEN GetField(data, "price", "averageDailyVolume10Day", Rat(0, 1))
                  ELSE vol0
        cap0   == GetField(data, "price", "marketCap", Rat(0, 1))
        cap    == cap0.v
        sec0   == GetField(data, "summaryProfile", "sector", Unknown)
        sector == IF sec0.null THEN PyNone ELSE sec0.v
        cr0    == GetField(data, "financialData", "currentRatio", Rat(0, 1))
        curr_ratio == cr0.v
        om0    == GetField(data, "financialData", "operatingMargins", Rat(0, 1))
        op_margins == om0.v
        pe0    == GetField(data, "summaryDetail", "trailingPE", Rat(0, 1))
        pe_known == ("summaryDetail" \in DOMAIN data.mods
                      /\ data.mods["summaryDetail"].kind = "dict"
                      /\ "trailingPE" \in DOMAIN data.mods["summaryDetail"].f
                      /\ ~pe0.null)
    IN  IF price0.raise \/ vol0.raise \/ vol1.raise \/ cap0.raise \/ sec0.raise
           \/ cr0.raise \/ om0.raise \/ pe0.raise
        THEN drop
        \* a filter that fails and a comparison that raises both end the
        \* iteration without a row
        ELSE IF FilterRaises(vol1.null, sec0.null, cfg) THEN drop
        ELSE IF ~PassesFilters([pe_known |-> pe_known, pe |-> pe0.v, price |-> price,
                                cap |-> cap, vol |-> vol1.v,
                                sector |-> sector,
                                curr_ratio |-> curr_ratio, op_margins |-> op_margins], cfg)
        THEN drop
        ELSE [keep |-> TRUE,
              row |-> [k \in {"Ticker", "Sector", "Price", "Op Margin %", "P/E",
                              "Curr Ratio", "Mkt Cap (B)"} |->
                         CASE k = "Ticker"      -> symbol
                           [] k = "Sector"      -> sector
                           [] k = "Price"       -> price
                           [] k = "Op Margin %" -> Round2(RatScale(100, op_margins))
                           [] k = "P/E"         ->
                                  IF pe_known /\ ~RatEq(pe0.v, Rat(0, 1))
                                  THEN Round2(pe0.v) ELSE [n |-> 0, d |-> 100]
                           [] k = "Curr Ratio"  -> curr_ratio
                           [] k = "Mkt Cap (B)" -> Round2(RatDivInt(cap, 1000))]]

\* line 34: the list cut into chunks of chunk_size
NumChunks(n) == (n + chunk_size - 1) \div chunk_size

Chunk(tk, i) ==
    SubSeq(tk, (i - 1) * chunk_size + 1,
           IF i * chunk_size < Len(tk) THEN i * chunk_size ELSE Len(tk))

\* ---- inputs

Symbols == {"AAA", "BBB"}

TickerLists == {<<>>, <<"AAA">>, <<"AAA", "BBB">>, <<"BBB", "AAA">>}

ScreenConfigs ==
    { [MIN_PRICE |-> Rat(5, 1), MIN_VOLUME |-> Rat(500000, 1), MIN_CAP |-> Rat(300, 1),
       MIN_CURRENT_RATIO |-> Rat(12, 10), MAX_PE_RATIO |-> Rat(25, 1),
       EXCLUDED_SECTORS |-> ex] :
      ex \in { << <<"F", "i", "n">>, <<"R", "E">> >>, <<>> } }

Mod(f) == [kind |-> "dict", f |-> f]

ModError == [kind |-> "str", f |-> <<>>]

Quote(mods) == [kind |-> "dict", mods |-> mods]

SymbolError == [kind |-> "str", mods |-> <<>>]

Tech == <<"T", "e", "c", "h">>

\* a record passing every filter with room to spare
GoodPrice == "regularMarketPrice" :> Val(Rat(10, 1)) @@ "marketCap" :> Val(Rat(5000, 1))

GoodDetail == "averageVolume" :> Val(Rat(1000000, 1)) @@ "trailingPE" :> Val(Rat(25, 2))

GoodProfile == "sector" :> Val(Tech)

GoodFin == "currentRatio" :> Val(Rat(2, 1)) @@ "operatingMargins" :> Val(Rat(15, 100))

Q(price, detail, profile, fin) ==
    Quote("price" :> Mod(price) @@ "summaryDetail" :> Mod(detail)
          @@ "summaryProfile" :> Mod(profile) @@ "financialData" :> Mod(fin))

\* the good record and records differing from it in one place: at a
\* threshold, just beyond it, null, or absent
QuoteChoices ==
    { Q(GoodPrice, GoodDetail, GoodProfile, GoodFin),
      SymbolError,
      Quote("price" :> ModError @@ "summaryDetail" :> Mod(GoodDetail)
            @@ "summaryProfile" :> Mod(GoodProfile) @@ "financialData" :> Mod(GoodFin)),
      Quote("price" :> Mod(GoodPrice) @@ "summaryDetail" :> Mod(GoodDetail)
            @@ "financialData" :> Mod(GoodFin)),
      \* price
      Q("regularMarketPrice" :> Val(Rat(5, 1)) @@ GoodPrice, GoodDetail, GoodProfile, GoodFin),
      Q("regularMarketPrice" :> Val(Rat(499, 100)) @@ GoodPrice, GoodDetail, GoodProfile, GoodFin),
      Q("regularMarketPrice" :> NullNum @@ GoodPrice, GoodDetail, GoodProfile, GoodFin),
      \* market cap
      Q("marketCap" :> Val(Rat(300, 1)) @@ GoodPrice, GoodDetail, GoodProfile, GoodFin),
      Q("marketCap" :> Val(Rat(299, 1)) @@ GoodPrice, GoodDetail, GoodProfile, GoodFin),
      Q("regularMarketPrice" :> Val(Rat(10, 1)), GoodDetail, GoodProfile, GoodFin),
      \* volume and its 10-day fallback
      Q(GoodPrice, "averageVolume" :> Val(Rat(500000, 1)) @@ GoodDetail, GoodProfile, GoodFin),
      Q(GoodPrice, "averageVolume" :> Val(Rat(499999, 1)) @@ GoodDetail, GoodProfile, GoodFin),
      Q("averageDailyVolume10Day" :> Val(Rat(600000, 1)) @@ GoodPrice,
        "averageVolume" :> Val(Rat(0, 1)) @@ GoodDetail, GoodProfile, GoodFin),
      Q("averageDailyVolume10Day" :> Val(Rat(400000, 1)) @@ GoodPrice,
        "averageVolume" :> NullNum @@ GoodDetail, GoodProfile, GoodFin),
      Q("averageDailyVolume10Day" :> NullNum @@ GoodPrice,
        "trailingPE" :> Val(Rat(25, 2)), GoodProfile, GoodFin),
      \* sector
      Q(GoodPrice, GoodDetail, "sector" :> Val(<<"F", "i", "n", "S">>), GoodFin),
      Q(GoodPrice, GoodDetail, "sector" :> Val(<<"x", "R", "E">>), GoodFin),
      Q(GoodPrice, GoodDetail, "sector" :> NullText, GoodFin),
      \* current ratio and operating margin
      Q(GoodPrice, GoodDetail, GoodProfile, "currentRatio" :> Val(Rat(12, 10)) @@ GoodFin),
      Q(GoodPrice, GoodDetail, GoodProfile, "currentRatio" :> Val(Rat(119, 100)) @@ GoodFin),
      Q(GoodPrice, GoodDetail, GoodProfile, "currentRatio" :> NullNum @@ GoodFin),
      Q(GoodPrice, GoodDetail, GoodProfile, "operatingMargins" :> Val(Rat(0, 1)) @@ GoodFin),
      Q(GoodPrice, GoodDetail, GoodProfile, "operatingMargins" :> NullNum @@ GoodFin),
      Q(GoodPrice, GoodDetail, GoodProfile, "operatingMargins" :> Val(Rat(-1, 100)) @@ GoodFin),
      \* trailing P/E
      Q(GoodPrice, "averageVolume" :> Val(Rat(1000000, 1)), GoodProfile, GoodFin),
      Q(GoodPrice, "trailingPE" :> NullNum @@ GoodDetail, GoodProfile, GoodFin),
      Q(GoodPrice, "trailingPE" :> Val(Rat(25, 1)) @@ GoodDetail, GoodProfile, GoodFin),
      Q(GoodPrice, "trailingPE" :> Val(Rat(2501, 100)) @@ GoodDetail, GoodProfile, GoodFin),
      Q(GoodPrice, "trailingPE" :> Val(Rat(0, 1)) @@ GoodDetail, GoodProfile, GoodFin) }

\* ---- the call as a state machine

tickers_in == sc_in.tickers

\* df_modules.items(): the chunk's symbols, in order
Items == Chunk(tickers_in, sc_chunk)

InitScreen ==
    /\ sc_in \in [tickers : TickerLists, cfg : ScreenConfigs]
    /\ sc_provider \in [raises : [1 .. 1 -> BOOLEAN], data : [Symbols -> QuoteChoices]]
    /\ sc_pc = "idle"
    /\ sc_chunk = 0
    /\ sc_pos = 0
    /\ survivors = <<>>
    /\ sc_result = DataFrame(<<>>)
    /\ DeepOff
    /\ ZOff
    /\ TrendOff

\* lines 28-34
ScreenStart ==
    /\ sc_pc = "idle"
    /\ sc_pc' = "batch"
    /\ sc_chunk' = 1
    /\ survivors' = <<>>
    /\ UNCHANGED <<sc_in, sc_provider, sc_pos, sc_result, deepVars, zVars, trendVars>>

\* lines 42-51 and 147-148: the bulk fetch of one chunk; a fetch that raises
\* skips the chunk
ScreenFetchBatch ==
    /\ sc_pc = "batch"
    /\ sc_chunk <= NumChunks(Len(tickers_in))
    /\ IF sc_provider.raises[sc_chunk]
       THEN /\ sc_chunk' = sc_chunk + 1
            /\ UNCHANGED <<sc_pc, sc_pos>>
       ELSE /\ sc_pc' = "symbols"
            /\ sc_pos' = 1
            /\ UNCHANGED sc_chunk
    /\ UNCHANGED <<sc_in, sc_provider, survivors, sc_result, deepVars, zVars, trendVars>>

\* lines 54-145: one symbol of the chunk
ScreenSymbol ==
    /\ sc_pc = "symbols"
    /\ sc_pos <= Len(Items)
    /\ LET symbol == Items[sc_pos]
           one    == ScreenOne(symbol, sc_provider.data[symbol], sc_in.cfg)
       IN  survivors' = IF one.keep THEN Append(survivors, one.row) ELSE survivors
    /\ sc_pos' = sc_pos + 1
    /\ UNCHANGED <<sc_in, sc_provider, sc_pc, sc_chunk, sc_result, deepVars, zVars, trendVars>>

\* the chunk is exhausted: on to the next one
ScreenNextBatch ==
    /\ sc_pc = "symbols"
    /\ sc_pos > Len(Items)
    /\ sc_pc' = "batch"
    /\ sc_chunk' = sc_chunk + 1
    /\ UNCHANGED <<sc_in, sc_provider, sc_pos, survivors, sc_result, deepVars, zVars, trendVars>>

\* line 151
ScreenEnd ==
    /\ sc_pc = "batch"
    /\ sc_chunk > NumChunks(Len(tickers_in))
    /\ sc_result' = DataFrame(survivors)
    /\ sc_pc' = "done"
    /\ UNCHANGED <<sc_in, sc_provider, sc_chunk, sc_pos, survivors, deepVars, zVars, trendVars>>

NextScreen ==
    ScreenStart \/ ScreenFetchBatch \/ ScreenSymbol \/ ScreenNextBatch \/ ScreenEnd

SpecScreen == InitScreen /\ [][NextScreen]_vars

-----------------------------------------------------------------------------
(* Trend Filter: apply_trend_alignment                                     *)
(* yf.download gives one table for all tickers: every ticker's column has  *)
(* the table's number of rows, with NaN where the ticker has no price.  A  *)
(* column is [kind, close]: kind "ok", "missing" (the ticker is not in the *)
(* table) or "noclose" (no "Close" column: reading it raises KeyError).    *)

Window == 200

RECURSIVE SumCells(_, _, _)
\* the sum of the cells c[lo .. hi]
SumCells(c, lo, hi) ==
    IF lo > hi THEN 0
    ELSE IF lo = hi THEN c[lo].v
    ELSE LET mid == (lo + hi) \div 2
         IN  SumCells(c, lo, mid) + SumCells(c, mid + 1, hi)

\* df_hist["Close"].rolling(window=200).mean().iloc[-1]: the mean of the last
\* 200 cells, NaN unless all of them are numbers
Sma200(close) ==
    LET w == SubSeq(close, Len(close) - Window + 1, Len(close))
    IN  IF \A i \in DOMAIN w : w[i].ok
        THEN [ok |-> TRUE, val |-> Rat(SumCells(w, 1, Len(w)), Window)]
        ELSE [ok |-> FALSE, val |-> Rat(0, 1)]

IsUptrend_OrEqual(current_price, sma_200) ==
    current_price.ok /\ sma_200.ok /\ RatGe(Rat(current_price.v, 1), sma_200.val)

\* line 224: current_price > sma_200 (False when either is NaN)
IsUptrend(current_price, sma_200) ==
    current_price.ok /\ sma_200.ok /\ RatGt(Rat(current_price.v, 1), sma_200.val)

\* line 227: round(((current_price - sma_200) / sma_200) * 100, 2)
DistancePct(current_price, sma) ==
    Round2(Rat(100 * (current_price * sma.d - sma.n), sma.n))

AfterError_Break(pos, n) == n + 1

\* line 239-240: except ...: continue
AfterError(pos, n) == pos + 1

(* One iteration (lines 203-240): [raised, keep, row].  With one ticker    *)
(* the table itself is the ticker's history; a ticker the provider does    *)
(* not know then has a table of no rows.                                   *)
TrendOne(ticker, base_row, data, many) ==
    LET col  == data.cols[ticker]
        none == [raised |-> FALSE, keep |-> FALSE, row |-> <<>>]
    IN  IF many /\ col.kind = "missing" THEN none
        ELSE IF (IF col.kind = "missing" THEN 0 ELSE data.len) < Window THEN none
        ELSE IF col.kind = "noclose" THEN [none EXCEPT !.raised = TRUE]
        ELSE LET sma_200       == Sma200(col.close)
                 current_price == col.close[Len(col.close)]
             IN  IF IsUptrend(current_price, sma_200)
                 THEN [raised |-> FALSE, keep |-> TRUE,
                       row |-> base_row
                               @@ "SMA_200" :> Round2(sma_200.val)
                               @@ "Trend_Dist_%" :> DistancePct(current_price.v, sma_200.val)]
                 ELSE none

RECURSIVE InsertSorted(_, _)
InsertSorted(r, sorted) ==
    IF sorted = <<>> THEN <<r>>
    ELSE IF RatLt(r["Trend_Dist_%"], Head(sorted)["Trend_Dist_%"]) THEN <<r>> \o sorted
    ELSE <<Head(sorted)>> \o InsertSorted(r, Tail(sorted))

RECURSIVE SortByTrendDist(_)
\* df.sort_values(by="Trend_Dist_%", ascending=True); rows of equal distance
\* keep their order
SortByTrendDist(rows) ==
    IF rows = <<>> THEN <<>>
    ELSE InsertSorted(rows[Len(rows)], SortByTrendDist(SubSeq(rows, 1, Len(rows) - 1)))

\* ---- inputs

\* a record as the Deep Analyzer emits it
AnalysedRow(t) ==
    Analyse(FinSolid, BsHealthy, SurvivorRow(t),
            [CACHE_EXPIRY_DAYS |-> 1, FORTRESS_MARGIN_THRESHOLD |-> Rat(5, 100),
             MIN_INTEREST_COVERAGE |-> Rat(15, 10), MIN_ROIC |-> Rat(10, 100)],
            [set |-> FALSE, val |-> Rat(0, 1)], 0).row

TrendFrames ==
    {DataFrame(rows) : rows \in
        {<<>>, <<AnalysedRow("AAA")>>, <<AnalysedRow("AAA"), AnalysedRow("BBB")>>,
         <<AnalysedRow("BBB"), AnalysedRow("AAA")>>}}

\* n daily closes: a first close of 50, then base, and the latest close last
Closes(n, base, last) ==
    [i \in 1 .. n |-> IF i = n THEN Num(last) ELSE IF i = 1 THEN Num(50) ELSE Num(base)]

\* the same with no price on the third day
Gapped(n, base, last) == [Closes(n, base, last) EXCEPT ![3] = NaN]

TableLengths == {Window - 1, Window, Window + 1}

Column(kind, close) == [kind |-> kind, close |-> close]

ColumnsOfLength(n) ==
    { Column("missing", <<>>), Column("noclose", <<>>),
      Column("ok", Closes(n, 10, 8)), Column("ok", Closes(n, 10, 12)),
      Column("ok", Closes(n, 10, 14)),
      Column("ok", [i \in 1 .. n |-> Num(10)]),
      Column("ok", Gapped(n, 10, 12)) }

PriceTables ==
    { [kind |-> "raise", len |-> 0, cols |-> [t \in Tickers |-> Column("missing", <<>>)]] }
    \cup UNION { [kind : {"ok"}, len : {n}, cols : [Tickers -> ColumnsOfLength(n)]] :
                  n \in TableLengths }

\* ---- the call as a state machine

tr_tickers == [i \in DOMAIN df_input.rows |-> df_input.rows[i]["Ticker"]]

\* df_input[df_input["Ticker"] == ticker].iloc[0].to_dict()
BaseRow(ticker) ==
    df_input.rows[CHOOSE i \in DOMAIN df_input.rows :
                     /\ df_input.rows[i]["Ticker"] = ticker
                     /\ \A j \in 1 .. (i - 1) : df_input.rows[j]["Ticker"] # ticker]

InitTrend ==
    /\ df_input \in TrendFrames
    /\ tr_data \in PriceTables
    /\ tr_pc = "idle"
    /\ tr_pos = 0
    /\ trend_data = <<>>
    /\ tr_result = DataFrame(<<>>)
    /\ DeepOff
    /\ ZOff
    /\ ScreenOff

\* lines 178-200: an empty input is returned as it is; so is the input when
\* the download raises
TrendStart ==
    /\ tr_pc = "idle"
    /\ IF df_input.rows = <<>> \/ tr_data.kind = "raise"
       THEN /\ tr_result' = df_input
            /\ tr_pc' = "done"
            /\ UNCHANGED <<tr_pos, trend_data>>
       ELSE /\ tr_pc' = "loop"
            /\ tr_pos' = 1
            /\ trend_data' = <<>>
            /\ UNCHANGED tr_result
    /\ UNCHANGED <<df_input, tr_data, deepVars, zVars, screenVars>>

\* lines 202-240: one ticker
TrendTicker ==
    /\ tr_pc = "loop"
    /\ tr_pos <= Len(tr_tickers)
    /\ LET ticker == tr_tickers[tr_pos]
           one    == TrendOne(ticker, BaseRow(ticker), tr_data, Len(tr_tickers) > 1)
       IN  /\ trend_data' = IF one.keep THEN Append(trend_data, one.row) ELSE trend_data
           /\ tr_pos' = IF one.raised THEN AfterError(tr_pos, Len(tr_tickers))
                        ELSE tr_pos + 1
    /\ UNCHANGED <<df_input, tr_data, tr_pc, tr_result, deepVars, zVars, screenVars>>

\* lines 243-254
TrendEnd ==
    /\ tr_pc = "loop"
    /\ tr_pos > Len(tr_tickers)
    /\ tr_result' = DataFrame(SortByTrendDist(trend_data))
    /\ tr_pc' = "done"
    /\ UNCHANGED <<df_input, tr_data, tr_pos, trend_data, deepVars, zVars, screenVars>>

NextTrend == TrendStart \/ TrendTicker \/ TrendEnd

SpecTrend == InitTrend /\ [][NextTrend]_vars

-----------------------------------------------------------------------------
(* calculate_altman_z_yfinance on its own inputs                           *)

\* a one-period (or, with periods = 0, a zero-period) table holding the given
\* values; an absent "Total Assets" row is total_assets = "absent"; the
\* synonym names are used when synonyms is TRUE
Cells(x, periods) == IF periods = 0 THEN <<>> ELSE <<Num(x)>>

BsOf(g) ==
    (IF g.has_assets THEN "Total Assets" :> Cells(g.total_assets, g.periods) ELSE <<>>)
    @@ (IF g.synonyms
        THEN "Total Liabilities" :> Cells(g.total_liab, g.periods)
             @@ "Total Current Assets" :> Cells(g.current_assets, g.periods)
             @@ "Total Current Liabilities" :> Cells(g.current_liab, g.periods)
        ELSE "Total Liabilities Net Minority Interest" :> Cells(g.total_liab, g.periods)
             @@ "Current Assets" :> Cells(g.current_assets, g.periods)
             @@ "Current Liabilities" :> Cells(g.current_liab, g.periods))
    @@ "Retained Earnings" :> Cells(g.retained_earnings, g.periods)

FinOf(g) ==
    (IF g.synonyms THEN "Operating Income" :> Cells(g.ebit, g.periods)
     ELSE "EBIT" :> Cells(g.ebit, g.periods))
    @@ "Total Revenue" :> Cells(g.total_revenue, g.periods)

ZGiven ==
    [has_assets : BOOLEAN, total_assets : {0, 1000}, total_liab : {0, 600},
     current_assets : {400}, current_liab : {200}, retained_earnings : {100, -50},
     ebit : {150, -20}, total_revenue : {900}, market_cap : {2000, 500},
     synonyms : BOOLEAN, periods : {0, 1}]

InitZ ==
    /\ \E g \in ZGiven :
         zin = [given |-> g, bs |-> BsOf(g), fin |-> FinOf(g), market_cap |-> g.market_cap]
    /\ zout = [done |-> FALSE, val |-> Rat(0, 1)]
    /\ DeepOff
    /\ ScreenOff
    /\ TrendOff

ComputeZ ==
    /\ ~zout.done
    /\ zout' = [done |-> TRUE,
                val |-> calculate_altman_z_yfinance(zin.bs, zin.fin, zin.market_cap)]
    /\ UNCHANGED <<zin, deepVars, screenVars, trendVars>>

NextZ == ComputeZ

SpecZ == InitZ /\ [][NextZ]_vars

-----------------------------------------------------------------------------
(* Deep Analyzer: get_advanced_metrics as a state machine                  *)

\* load_cache (setup.py 54-71): json.load of the file, {} when absent or unreadable
load_cache(file) ==
    IF file.kind \in {"absent", "corrupt"} THEN File("dict", <<>>) ELSE file

save_cache_Nothing(cache_data) == File("dict", <<>>)

\* save_cache (setup.py 74-87)
save_cache(cache_data) == cache_data

NoAvg == [set |-> FALSE, val |-> Rat(0, 1)]

\* what one call did: tickers fetched and skipped (in order), tickers whose
\* fetch failed, the cache as loaded, the time of the call, and at its end
\* the rows returned and the cache saved
NoRun == [fetches |-> <<>>, skips |-> <<>>, failed |-> {}, loaded |-> File("dict", <<>>),
          loads |-> 0, saves |-> 0, time |-> 0, rows |-> <<>>, saved |-> File("dict", <<>>)]

tickers == [i \in DOMAIN survivor_df.rows |-> survivor_df.rows[i]["Ticker"]]

expiry_seconds == params.CACHE_EXPIRY_DAYS * SecondsPerDay

\* line 85
IsFresh_Inclusive(entry, now, expiry) == now - entry["timestamp"] <= expiry

IsFresh(entry, now, expiry) == now - entry["timestamp"] < expiry

IsFailedMark_Never(entry) == FALSE

\* line 86: cached_data.get("roic") == -999
IsFailedMark(entry) ==
    "roic" \in DOMAIN entry /\ RatEq(entry["roic"], Rat(FailedRoic, 1))

InitDeep ==
    /\ cacheFile \in CacheFiles
    /\ clock = StartClock
    /\ provider \in [Tickers -> Outcomes]
    /\ survivor_df \in SurvivorFrames
    /\ params \in ParamSets
    /\ pc = "idle"
    /\ cache = File("dict", <<>>)
    /\ current_time = 0
    /\ idx = 0
    /\ final_data = <<>>
    /\ avg_margin = NoAvg
    /\ result = DataFrame(<<>>)
    /\ hist = [run |-> 0, cur |-> NoRun, done |-> <<>>]
    /\ ZOff
    /\ ScreenOff
    /\ TrendOff

\* the call up to the loop (lines 26-36)
DeepStart ==
    /\ pc \in {"idle", "done", "raised"}
    /\ hist.run < MaxRuns
    /\ \E d \in Elapse :
         /\ clock' = clock + d
         /\ IF "Ticker" \notin survivor_df.columns
            THEN \* survivor_df["Ticker"] raises KeyError
                 /\ pc' = "raised"
                 /\ hist' = [hist EXCEPT !.run = @ + 1, !.cur = NoRun]
                 /\ UNCHANGED <<cache, current_time, idx, final_data, avg_margin>>
            ELSE /\ pc' = "loop"
                 /\ cache' = load_cache(cacheFile)
                 /\ current_time' = clock'
                 /\ idx' = 1
                 /\ final_data' = <<>>
                 /\ avg_margin' = NoAvg
                 /\ hist' = [hist EXCEPT !.run = @ + 1,
                                !.cur = [NoRun EXCEPT !.loaded = load_cache(cacheFile),
                                                      !.loads = 1,
                                                      !.time = clock']]
    /\ UNCHANGED <<cacheFile, provider, survivor_df, params, result>>
    /\ UNCHANGED <<zVars, screenVars, trendVars>>

\* one iteration of the loop (lines 39-207)
DeepTicker ==
    /\ pc = "loop"
    /\ idx <= Len(tickers)
    /\ LET ticker == tickers[idx]
           known  == cache.kind = "dict" /\ ticker \in DOMAIN cache.map
           cached_data == IF known THEN cache.map[ticker] ELSE <<>>
           truthy == known /\ DOMAIN cached_data # {}
           out    == provider[ticker]
       IN  IF \/ cache.kind # "dict"                       \* cache.get: AttributeError
              \/ truthy /\ "timestamp" \notin DOMAIN cached_data    \* KeyError
           THEN /\ pc' = "raised"
                /\ UNCHANGED <<cache, idx, final_data, avg_margin, hist>>
           ELSE IF /\ truthy
                   /\ IsFresh(cached_data, current_time, expiry_seconds)
                   /\ IsFailedMark(cached_data)
           THEN \* previous fetch failed: continue
                /\ idx' = idx + 1
                /\ hist' = [hist EXCEPT !.cur.skips = Append(@, ticker)]
                /\ UNCHANGED <<pc, cache, final_data, avg_margin>>
           ELSE IF out.kind = "raise" \/ IsEmpty(out.fin) \/ IsEmpty(out.bs)
           THEN \* the fetch raised, or gave an empty statement: continue
                /\ idx' = idx + 1
                /\ hist' = [hist EXCEPT !.cur.fetches = Append(@, ticker),
                                        !.cur.failed = @ \cup {ticker}]
                /\ UNCHANGED <<pc, cache, final_data, avg_margin>>
           ELSE LET a == Analyse(out.fin, out.bs, survivor_df.rows[idx], params,
                                 avg_margin, current_time)
                IN  /\ idx' = idx + 1
                    /\ cache' = [cache EXCEPT !.map = (ticker :> a.metrics) @@ @]
                    /\ final_data' = Append(final_data, a.row)
                    /\ avg_margin' = a.avg
                    /\ hist' = [hist EXCEPT !.cur.fetches = Append(@, ticker)]
                    /\ UNCHANGED pc
    /\ UNCHANGED <<cacheFile, clock, provider, survivor_df, params, current_time, result>>
    /\ UNCHANGED <<zVars, screenVars, trendVars>>

\* after the loop (lines 209-212)
DeepEnd ==
    /\ pc = "loop"
    /\ idx > Len(tickers)
    /\ cacheFile' = save_cache(cache)
    /\ result' = DataFrame(final_data)
    /\ pc' = "done"
    /\ hist' = [hist EXCEPT !.cur.saves = @ + 1,
                            !.done = Append(@, [hist.cur EXCEPT
                                                  !.saves = @ + 1,
                                                  !.rows = final_data,
                                                  !.saved = save_cache(cache)])]
    /\ UNCHANGED <<clock, provider, survivor_df, params, cache, current_time, idx,
                   final_data, avg_margin>>
    /\ UNCHANGED <<zVars, screenVars, trendVars>>

NextDeep == DeepStart \/ DeepTicker \/ DeepEnd

SpecDeep == InitDeep /\ [][NextDeep]_vars

-----------------------------------------------------------------------------
(* Claims about the Deep Analyzer                                          *)

\* the run in progress (or just ended) got past the load: its locals are its own
RunHasLoaded == hist.cur.loads = 1

\* positions of the ticker list whose iteration is over
ProcessedPositions == IF RunHasLoaded THEN 1 .. (idx - 1) ELSE {}

LoadedEntryOf(t) ==
    IF hist.cur.loaded.kind = "dict" /\ t \in DOMAIN hist.cur.loaded.map
    THEN hist.cur.loaded.map[t] ELSE <<>>

HasRowFor(rows, t) == \E i \in DOMAIN rows : rows[i]["Ticker"] = t

Occurrences(seq, t) == Cardinality({i \in DOMAIN seq : seq[i] = t})

\* the decision rule of the specification, on the values as computed
RuleTier(interest_coverage, roic, fortress_margin, positive_margin, z_score, p) ==
    IF RatLt(interest_coverage, p.MIN_INTEREST_COVERAGE) THEN "Risky"
    ELSE IF RatLt(roic, p.MIN_ROIC) THEN "Risky"
    ELSE IF fortress_margin /\ RatGe(z_score, Rat(299, 100)) THEN "Fortress"
    ELSE IF positive_margin /\ RatGe(z_score, Rat(181, 100)) THEN "Strong"
    ELSE "Risky"

RuleTierOfRow(row, roundIt) ==
    LET out == provider[row["Ticker"]]
        m   == MarginBlock(out.fin)
        ic  == InterestCoverage(out.fin)
        z   == calculate_altman_z_yfinance(out.bs, out.fin, row["Mkt Cap (B)"].n * 10)
    IN  RuleTier(IF roundIt THEN Round2(ic) ELSE ic,
                 Roic(out.fin, out.bs),
                 m.some /\ RatGt(m.avg, params.FORTRESS_MARGIN_THRESHOLD),
                 m.some /\ RatGt(m.avg, Rat(0, 1)),
                 IF roundIt THEN Round2(z) ELSE z,
                 params)

(* C1: the Tier of every emitted record is the decision rule (interest     *)
(* coverage gate, ROIC gate, Fortress, Strong, else Risky, in this order)  *)
(* evaluated on the ticker's computed interest coverage, ROIC, margin      *)
(* flags and Z-Score; an interest coverage below the minimum gives Risky.  *)
C1_TierIsRuleOnComputedValues ==
    \A i \in DOMAIN final_data :
        final_data[i]["Tier"] = RuleTierOfRow(final_data[i], FALSE)

\* what the code does instead: the rule on int_cov and z_score rounded to two
\* decimals (the cache entry's values), and on the unrounded roic
TierIsRuleOnRoundedValues ==
    \A i \in DOMAIN final_data :
        final_data[i]["Tier"] = RuleTierOfRow(final_data[i], TRUE)

(* C3: no stage run ends by raising; each returns a (possibly empty)       *)
(* table, also for an empty Candidate Set handed over by the Bulk Screener *)
C3_NoRunRaises == pc # "raised"

(* C4: a ticker whose fetch failed in a run is recorded as failed          *)
(* (roic == -999, with the run's timestamp) in the cache the run saves, a  *)
(* later run started before that entry expires does not fetch it again,    *)
(* and within one run a ticker is fetched at most once.                    *)
C4_FailedFetchIsCachedAsFailed ==
    /\ \A i \in DOMAIN hist.done : \A t \in hist.done[i].failed :
          /\ t \in DOMAIN hist.done[i].saved.map
          /\ "roic" \in DOMAIN hist.done[i].saved.map[t]
          /\ RatEq(hist.done[i].saved.map[t]["roic"], Rat(-999, 1))
          /\ "timestamp" \in DOMAIN hist.done[i].saved.map[t]
          /\ hist.done[i].time - hist.done[i].saved.map[t]["timestamp"]
               < params.CACHE_EXPIRY_DAYS * 86400
    /\ \A i, j \in DOMAIN hist.done :
          (i < j /\ hist.done[j].time - hist.done[i].time < params.CACHE_EXPIRY_DAYS * 86400)
          => \A t \in hist.done[i].failed : Occurrences(hist.done[j].fetches, t) = 0
    /\ \A t \in Tickers : Occurrences(hist.cur.fetches, t) <= 1

\* the loaded entry of t is fresh at the run's time and marked failed
FreshFailedAtLoad(t) ==
    LET e == LoadedEntryOf(t)
    IN  /\ "timestamp" \in DOMAIN e /\ "roic" \in DOMAIN e
        /\ hist.cur.time - e["timestamp"] < params.CACHE_EXPIRY_DAYS * 86400
        /\ RatEq(e["roic"], Rat(-999, 1))

(* C5: a ticker whose loaded cache entry is fresh and has roic == -999 is  *)
(* not fetched, has no record in the output, keeps its cache entry, and    *)
(* the run goes on to the next ticker without raising.                     *)
C5_FreshFailedIsSkipped ==
    /\ \A i \in ProcessedPositions :
          FreshFailedAtLoad(tickers[i]) =>
             /\ Occurrences(hist.cur.fetches, tickers[i]) = 0
             /\ Occurrences(hist.cur.skips, tickers[i]) = 1
             /\ ~HasRowFor(final_data, tickers[i])
             /\ cache.map[tickers[i]] = LoadedEntryOf(tickers[i])
             /\ pc = "done" =>
                  /\ ~HasRowFor(result.rows, tickers[i])
                  /\ cacheFile.map[tickers[i]] = LoadedEntryOf(tickers[i])
    /\ (RunHasLoaded /\ pc = "raised") => ~FreshFailedAtLoad(tickers[idx])

C5_Witness ==
    /\ pc = "done" /\ RunHasLoaded
    /\ tickers = <<"AAA", "BBB">>
    /\ FreshFailedAtLoad("AAA")
    /\ hist.cur.skips = <<"AAA">>
    /\ hist.cur.fetches = <<"BBB">>
    /\ HasRowFor(result.rows, "BBB")

(* C6: an entry with timestamp T is fresh exactly when                     *)
(* now - T < CACHE_EXPIRY_DAYS * 86400: a failed entry is skipped at       *)
(* now = T + expiry - 1 and no longer at now = T + expiry or later, and a  *)
(* stale entry, failed or not, is treated as absent: its ticker is fetched *)
C6_FreshExactlyBeforeExpiry ==
    \A i \in ProcessedPositions :
        LET t == tickers[i]
            e == LoadedEntryOf(t)
            age == hist.cur.time - e["timestamp"]
            expiry == params.CACHE_EXPIRY_DAYS * 86400
        IN  "timestamp" \in DOMAIN e =>
              /\ age >= expiry => Occurrences(hist.cur.fetches, t) = 1
              /\ ("roic" \in DOMAIN e /\ RatEq(e["roic"], Rat(-999, 1))) =>
                    /\ (Occurrences(hist.cur.skips, t) = 1) <=> (age < expiry)
                    /\ (Occurrences(hist.cur.fetches, t) = 1) <=> (age >= expiry)

\* one run in which an entry one second before its expiry is skipped and an
\* entry exactly at its expiry is fetched again
C6_Witness ==
    /\ pc = "done" /\ RunHasLoaded /\ Len(tickers) = 2
    /\ \E t, u \in Tickers :
          /\ "timestamp" \in DOMAIN LoadedEntryOf(t)
          /\ "timestamp" \in DOMAIN LoadedEntryOf(u)
          /\ RatEq(LoadedEntryOf(t)["roic"], Rat(-999, 1))
          /\ RatEq(LoadedEntryOf(u)["roic"], Rat(-999, 1))
          /\ hist.cur.time = LoadedEntryOf(t)["timestamp"]
                               + params.CACHE_EXPIRY_DAYS * 86400 - 1
          /\ hist.cur.time = LoadedEntryOf(u)["timestamp"]
                               + params.CACHE_EXPIRY_DAYS * 86400
          /\ hist.cur.skips = <<t>>
          /\ hist.cur.fetches = <<u>>

\* every entry of the cache a run saved that was fresh at that run's time is
\* still fresh at the later time
StillInsideWindow(a, later) ==
    \A t \in DOMAIN a.saved.map :
        ("timestamp" \in DOMAIN a.saved.map[t]
           /\ a.time - a.saved.map[t]["timestamp"] < params.CACHE_EXPIRY_DAYS * 86400)
        => later - a.saved.map[t]["timestamp"] < params.CACHE_EXPIRY_DAYS * 86400

(* C9: two runs on the same Candidate Set and provider data, the second    *)
(* starting from the cache the first saved and inside the expiry window,   *)
(* return the same records (tickers, Tier, ratio fields).                  *)
C9_SecondRunSameOutput ==
    \A i \in DOMAIN hist.done : \A j \in DOMAIN hist.done :
        ( /\ j = i + 1
          /\ hist.done[j].loaded = hist.done[i].saved
          /\ hist.done[j].time - hist.done[i].time < params.CACHE_EXPIRY_DAYS * 86400
          /\ StillInsideWindow(hist.done[i], hist.done[j].time) )
        => hist.done[j].rows = hist.done[i].rows

\* what the run loaded gives no usable entry for t: the persisted content
\* is not a mapping, or the entry of t has no timestamp
InvalidAtLoad(t) ==
    \/ hist.cur.loaded.kind # "dict"
    \/ /\ t \in DOMAIN hist.cur.loaded.map
       /\ "timestamp" \notin DOMAIN hist.cur.loaded.map[t]

(* C11: a missing, unreadable or corrupt cache file, persisted content     *)
(* that is not a ticker-to-entry mapping and an entry without a timestamp  *)
(* behave like an empty cache or an absent entry: no run fails once it has *)
(* loaded the cache, and every ticker affected is fetched.                 *)
C11_BadCacheBehavesAsEmpty ==
    /\ RunHasLoaded => pc # "raised"
    /\ \A i \in ProcessedPositions :
          InvalidAtLoad(tickers[i]) => Occurrences(hist.cur.fetches, tickers[i]) = 1
    /\ (RunHasLoaded /\ cacheFile.kind \in {"absent", "corrupt"} /\ pc = "loop")
          => cache.kind = "dict"

\* the part of it the code keeps: a missing or unreadable file is an empty cache
AbsentOrCorruptFileIsEmptyCache ==
    (RunHasLoaded /\ hist.cur.loaded.kind = "dict" /\ hist.cur.loaded.map = <<>>)
        => \A i \in ProcessedPositions : Occurrences(hist.cur.fetches, tickers[i]) = 1

\* the statements the provider gave for the ticker of an emitted row
FinOfRow(row) == provider[row["Ticker"]].fin

(* C12: for every emitted record, whatever its position and whatever was   *)
(* computed before it: when the ticker's average margin computation fails  *)
(* or has no valid period, both margin flags are false (the rule can then  *)
(* only give Risky) and "Avg Margin (4Y)" is 0; otherwise the emitted      *)
(* average is the ticker's own average margin.                             *)
C12_AvgMarginIsTheTickersOwn ==
    \A i \in DOMAIN final_data :
        LET m == MarginBlock(FinOfRow(final_data[i]))
        IN  IF m.some
            THEN final_data[i]["Avg Margin (4Y)"] = Round2(RatScale(100, m.avg))
            ELSE /\ final_data[i]["Tier"] = "Risky"
                 /\ final_data[i]["Avg Margin (4Y)"].n = 0

\* what the code keeps of it: the flags are the ticker's own, and the first
\* emitted average of a run is
C12_FlagsAndFirstRowAreOwn ==
    \A i \in DOMAIN final_data :
        LET m == MarginBlock(FinOfRow(final_data[i]))
        IN  /\ ~m.some => final_data[i]["Tier"] = "Risky"
            /\ m.some => final_data[i]["Avg Margin (4Y)"] = Round2(RatScale(100, m.avg))
            /\ (~m.some /\ i = 1) => final_data[i]["Avg Margin (4Y)"].n = 0

\* t was fetched in the running call and its analysis went through
AnalysedInRun(t) == Occurrences(hist.cur.fetches, t) = 1 /\ t \notin hist.cur.failed

\* the row of the Candidate Set for ticker t
CandidateRow(t) ==
    survivor_df.rows[CHOOSE i \in DOMAIN survivor_df.rows : survivor_df.rows[i]["Ticker"] = t]

\* the file still reads as it did when the call loaded it
FileAsLoaded == load_cache(cacheFile) = hist.cur.loaded

(* C14: in every run the cache is loaded once, before the first ticker is  *)
(* processed, and saved once, after the last ticker has been processed,    *)
(* whatever mix of tickers was skipped, failed or analysed; the file is    *)
(* not written between tickers, and the saved mapping holds for every       *)
(* analysed ticker the entry {timestamp: the run's start time, z_score,    *)
(* roic, int_cov}.                                                         *)
C14_LoadOnceSaveOnceAtEnd ==
    /\ hist.cur.loads <= 1 /\ hist.cur.saves <= 1
    /\ (hist.cur.fetches # <<>> \/ hist.cur.skips # <<>>) => hist.cur.loads = 1
    /\ (RunHasLoaded /\ pc \in {"loop", "raised"}) => (hist.cur.saves = 0 /\ FileAsLoaded)
    /\ pc = "done" =>
          /\ hist.cur.loads = 1 /\ hist.cur.saves = 1
          /\ idx = Len(tickers) + 1
          /\ Len(hist.cur.fetches) + Len(hist.cur.skips) = Len(tickers)
          /\ cacheFile.kind = "dict"
          /\ \A t \in Tickers :
                AnalysedInRun(t) =>
                  /\ t \in DOMAIN cacheFile.map
                  /\ DOMAIN cacheFile.map[t] = {"timestamp", "z_score", "roic", "int_cov"}
                  /\ cacheFile.map[t]["timestamp"] = hist.cur.time
                  /\ cacheFile.map[t] =
                        Analyse(provider[t].fin, provider[t].bs, CandidateRow(t), params,
                                NoAvg, hist.cur.time).metrics

\* a finished second run over two tickers, one skipped on its failed mark or
\* failing its fetch and one analysed, started later than the first
C14_Witness ==
    /\ pc = "done" /\ hist.run = 2
    /\ Len(tickers) = 2
    /\ \E t, u \in Tickers :
          /\ t # u
          /\ AnalysedInRun(t) /\ cacheFile.map[t]["timestamp"] = hist.cur.time
          /\ hist.cur.time > StartClock
          /\ (u \in hist.cur.failed \/ Occurrences(hist.cur.skips, u) = 1)

-----------------------------------------------------------------------------
(* Claims about calculate_altman_z_yfinance                                *)

\* the inputs of the worked example of the specification
ZExample(g) ==
    /\ g.has_assets /\ g.periods = 1
    /\ g.total_assets = 1000 /\ g.total_liab = 600 /\ g.current_assets = 400
    /\ g.current_liab = 200 /\ g.retained_earnings = 100 /\ g.ebit = 150
    /\ g.total_revenue = 900 /\ g.market_cap = 2000

\* total assets as the function reads them: 0 when the row is absent
ZAssets(g) == IF g.has_assets THEN g.total_assets ELSE 0

\* 1.2*A + 1.4*B + 3.3*C + 0.6*D + 1.0*E, term by term
ZByTerms(g) ==
    LET ta == ZAssets(g)
        A  == Rat(g.current_assets - g.current_liab, ta)
        B  == Rat(g.retained_earnings, ta)
        C  == Rat(g.ebit, ta)
        D  == Rat(g.market_cap, g.total_liab)
        E  == Rat(g.total_revenue, ta)
    IN  RatAdd(RatDivInt(RatScale(12, A), 10),
        RatAdd(RatDivInt(RatScale(14, B), 10),
        RatAdd(RatDivInt(RatScale(33, C), 10),
        RatAdd(RatDivInt(RatScale(6, D), 10), E))))

ZZeroCasesAndFormula ==
    zout.done =>
        IF zin.given.periods = 0 \/ ZAssets(zin.given) = 0 \/ zin.given.total_liab = 0
        THEN zout.val = Rat(0, 1)
        ELSE zout.val = ZByTerms(zin.given)

(* C10 as stated: 0 when total_assets == 0 or total_liabilities == 0 or a  *)
(* lookup throws, else exactly 1.2A + 1.4B + 3.3C + 0.6D + 1.0E; for the   *)
(* worked example the result is about 3.968.                               *)
C10_AsStated ==
    /\ ZZeroCasesAndFormula
    /\ (zout.done /\ ZExample(zin.given)) =>
          Abs(1000 * zout.val.n - 3968 * zout.val.d) <= zout.val.d

(* C10 amended: the same, the worked example giving 3.775.                 *)
C10_ZScore ==
    /\ ZZeroCasesAndFormula
    /\ (zout.done /\ ZExample(zin.given)) => zout.val = Rat(3775, 1000)

C10_Witness ==
    /\ zout.done /\ ZExample(zin.given) /\ zout.val = Rat(3775, 1000)

-----------------------------------------------------------------------------
(* Claims about the Bulk Screener                                          *)

\* the provider's value of a field: known when the record, the module and
\* the field are there and the field is not null
Known(data, mod, field) ==
    /\ data.kind = "dict" /\ mod \in DOMAIN data.mods
    /\ data.mods[mod].kind = "dict" /\ field \in DOMAIN data.mods[mod].f
    /\ ~data.mods[mod].f[field].null

IsNull(data, mod, field) ==
    /\ data.kind = "dict" /\ mod \in DOMAIN data.mods
    /\ data.mods[mod].kind = "dict" /\ field \in DOMAIN data.mods[mod].f
    /\ data.mods[mod].f[field].null

NumOrZero(data, mod, field) ==
    IF Known(data, mod, field) THEN data.mods[mod].f[field].v ELSE Rat(0, 1)

FetchedVolume(data) ==
    IF NumOrZero(data, "summaryDetail", "averageVolume").n = 0
    THEN NumOrZero(data, "price", "averageDailyVolume10Day")
    ELSE NumOrZero(data, "summaryDetail", "averageVolume")

FetchedSector(data) ==
    IF Known(data, "summaryProfile", "sector")
    THEN data.mods["summaryProfile"].f["sector"].v
    ELSE IF IsNull(data, "summaryProfile", "sector") THEN <<>> ELSE Unknown

\* all the filter predicates of the specification on the fetched values
AllPredicates(data, cfg) ==
    /\ data.kind = "dict"
    /\ \/ ~Known(data, "summaryDetail", "trailingPE")
       \/ ~RatGt(data.mods["summaryDetail"].f["trailingPE"].v, cfg.MAX_PE_RATIO)
    /\ RatGe(NumOrZero(data, "price", "regularMarketPrice"), cfg.MIN_PRICE)
    /\ RatGe(NumOrZero(data, "price", "marketCap"), cfg.MIN_CAP)
    /\ RatGe(FetchedVolume(data), cfg.MIN_VOLUME)
    /\ \A i \in DOMAIN cfg.EXCLUDED_SECTORS :
          \A a, b \in 1 .. Len(FetchedSector(data)) :
              SubSeq(FetchedSector(data), a, b) # cfg.EXCLUDED_SECTORS[i]
    /\ RatGe(NumOrZero(data, "financialData", "currentRatio"), cfg.MIN_CURRENT_RATIO)
    /\ RatGt(NumOrZero(data, "financialData", "operatingMargins"), Rat(0, 1))

InInput(t) == \E i \in DOMAIN sc_in.tickers : sc_in.tickers[i] = t

(* C2: every record the Bulk Screener returns has a ticker of the input    *)
(* whose fetched values satisfy all filter predicates at once (P/E unknown *)
(* or <= MAX_PE_RATIO, price, market cap, volume with its 10-day fallback, *)
(* sector, current ratio, operating margin > 0); a ticker failing any one  *)
(* predicate is never in the output.                                       *)
C2_SurvivorsSatisfyAllFilters ==
    /\ \A i \in DOMAIN survivors :
          /\ InInput(survivors[i]["Ticker"])
          /\ AllPredicates(sc_provider.data[survivors[i]["Ticker"]], sc_in.cfg)
    /\ sc_pc = "done" =>
          /\ sc_result.rows = survivors
          /\ \A t \in Symbols :
                ~AllPredicates(sc_provider.data[t], sc_in.cfg)
                => ~HasRowFor(sc_result.rows, t)

\* a finished call that kept a ticker on its 10-day volume and dropped one
\* whose operating margin is exactly 0
C2_Witness ==
    /\ sc_pc = "done"
    /\ sc_in.tickers = <<"AAA", "BBB">>
    /\ Len(sc_result.rows) = 1
    /\ sc_result.rows[1]["Ticker"] = "AAA"
    /\ NumOrZero(sc_provider.data["AAA"], "summaryDetail", "averageVolume").n = 0
    /\ Known(sc_provider.data["AAA"], "price", "averageDailyVolume10Day")
    /\ Known(sc_provider.data["BBB"], "financialData", "operatingMargins")
    /\ NumOrZero(sc_provider.data["BBB"], "financialData", "operatingMargins").n = 0

\* every module of the record is a mapping (none is an error string)
AllModulesAreDicts(data) ==
    data.kind = "dict" /\ \A m \in DOMAIN data.mods : data.mods[m].kind = "dict"

\* the sector with its default: "Unknown" when absent or null
SectorOrUnknown(data) ==
    IF Known(data, "summaryProfile", "sector")
    THEN data.mods["summaryProfile"].f["sector"].v ELSE Unknown

\* the filter predicates on the fetched values, every absent or null field
\* replaced by its default first
PredicatesOnDefaults(data, cfg) ==
    /\ \/ ~Known(data, "summaryDetail", "trailingPE")
       \/ ~RatGt(data.mods["summaryDetail"].f["trailingPE"].v, cfg.MAX_PE_RATIO)
    /\ RatGe(NumOrZero(data, "price", "regularMarketPrice"), cfg.MIN_PRICE)
    /\ RatGe(NumOrZero(data, "price", "marketCap"), cfg.MIN_CAP)
    /\ RatGe(FetchedVolume(data), cfg.MIN_VOLUME)
    /\ \A i \in DOMAIN cfg.EXCLUDED_SECTORS :
          \A a, b \in 1 .. Len(SectorOrUnknown(data)) :
              SubSeq(SectorOrUnknown(data), a, b) # cfg.EXCLUDED_SECTORS[i]
    /\ RatGe(NumOrZero(data, "financialData", "currentRatio"), cfg.MIN_CURRENT_RATIO)
    /\ RatGt(NumOrZero(data, "financialData", "operatingMargins"), Rat(0, 1))

RowOf(rows, t) == rows[CHOOSE i \in DOMAIN rows : rows[i]["Ticker"] = t]

\* t is in a chunk whose bulk fetch did not raise
BatchFetched(t) ==
    \E c \in 1 .. NumChunks(Len(sc_in.tickers)) :
        /\ ~sc_provider.raises[c]
        /\ \E i \in DOMAIN Chunk(sc_in.tickers, c) : Chunk(sc_in.tickers, c)[i] = t

\* the fetched record of t is screened as its values with defaults decide,
\* and a record kept carries the sector with its default
ScreenedOnDefaults(t) ==
    LET data == sc_provider.data[t]
    IN  (BatchFetched(t) /\ AllModulesAreDicts(data)) =>
          /\ HasRowFor(sc_result.rows, t) <=> PredicatesOnDefaults(data, sc_in.cfg)
          /\ HasRowFor(sc_result.rows, t) =>
                RowOf(sc_result.rows, t)["Sector"] = SectorOrUnknown(data)

(* C13: in the Bulk Screener every absent or null summary field (price,    *)
(* average volume and its 10-day fallback, market cap, sector, current     *)
(* ratio, operating margin) is replaced by its default (0, "Unknown" for   *)
(* the sector) before the filters are evaluated: a record is kept exactly  *)
(* when its values with defaults pass every filter, and no record of the   *)
(* output carries a null Sector.                                           *)
C13_NullFieldsGetDefaults ==
    sc_pc = "done" =>
        /\ \A i \in DOMAIN sc_result.rows : sc_result.rows[i]["Sector"] # PyNone
        /\ \A t \in Symbols : ScreenedOnDefaults(t)

\* what the code keeps of it: records whose sector is not null
C13_HoldsUnlessSectorIsNull ==
    sc_pc = "done" =>
        \A t \in Symbols :
            ~IsNull(sc_provider.data[t], "summaryProfile", "sector") => ScreenedOnDefaults(t)

-----------------------------------------------------------------------------
(* Claims about the Trend Filter                                           *)

InTrendOutput(t) == \E i \in DOMAIN tr_result.rows : tr_result.rows[i]["Ticker"] = t

InTrendInput(t) == \E i \in DOMAIN df_input.rows : df_input.rows[i]["Ticker"] = t

\* the daily closes the provider has for ticker t
ClosesOf(t) ==
    IF tr_data.cols[t].kind = "ok" /\ ~(Len(tr_tickers) = 1 /\ tr_data.len = 0)
    THEN tr_data.cols[t].close ELSE <<>>

Observations(t) == Cardinality({i \in DOMAIN ClosesOf(t) : ClosesOf(t)[i].ok})

\* latest close > mean of the latest 200 closes, all of them being prices
CloseAboveSma(t) ==
    LET c == ClosesOf(t)
        n == Len(c)
    IN  /\ n >= Window
        /\ \A i \in (n - Window + 1) .. n : c[i].ok
        /\ Window * c[n].v > SumCells(c, n - Window + 1, n)

CloseEqualsSma(t) ==
    LET c == ClosesOf(t)
        n == Len(c)
    IN  /\ n >= Window
        /\ \A i \in (n - Window + 1) .. n : c[i].ok
        /\ Window * c[n].v = SumCells(c, n - Window + 1, n)

TrendFetched == tr_pc = "done" /\ tr_data.kind = "ok" /\ df_input.rows # <<>>

(* C7: when the price fetch succeeds, every ticker in the Trend Filter's   *)
(* output has at least 200 daily observations and a latest close strictly  *)
(* greater than its 200-period simple moving average; a ticker whose       *)
(* latest close equals the average is not in the output.                   *)
C7_OnlyStrictUptrendWithHistory ==
    TrendFetched =>
        \A t \in Tickers :
            /\ InTrendOutput(t) => (Observations(t) >= Window /\ CloseAboveSma(t))
            /\ CloseEqualsSma(t) => ~InTrendOutput(t)

C7_Witness ==
    /\ TrendFetched
    /\ Len(tr_tickers) = 2
    /\ \E t, u \in Tickers :
          /\ InTrendInput(t) /\ InTrendOutput(t)
          /\ InTrendInput(u) /\ CloseEqualsSma(u) /\ ~InTrendOutput(u)

\* processing ticker t raises: its history is long enough and has no "Close"
RaisesInTrend(t) ==
    /\ tr_data.cols[t].kind = "noclose"
    /\ tr_data.len >= Window

(* C8: when the bulk price fetch fails the Trend Filter returns its input  *)
(* as it is (same records, same order, no added field); when it succeeds,  *)
(* a ticker whose processing raises is absent from the output and every    *)
(* other ticker of the input is in the output exactly when its own closes  *)
(* put it above its moving average, whatever happened to the others.       *)
C8_FetchFailurePassesInputErrorDropsOne ==
    tr_pc = "done" =>
        /\ tr_data.kind = "raise" => tr_result = df_input
        /\ TrendFetched =>
              \A t \in Tickers :
                  /\ RaisesInTrend(t) => ~InTrendOutput(t)
                  /\ (InTrendInput(t) /\ ~RaisesInTrend(t)) =>
                        (InTrendOutput(t) <=> CloseAboveSma(t))

C8_Witness ==
    /\ TrendFetched
    /\ tr_tickers = <<"AAA", "BBB">>
    /\ RaisesInTrend("AAA") /\ ~InTrendOutput("AAA")
    /\ CloseAboveSma("BBB") /\ InTrendOutput("BBB")

====
